---- MODULE Spec2Model ----
(***************************************************************************)
(* Runtime hosts override plugin (GitHub520 -> CheckTMDB).                 *)
(*                                                                         *)
(* The repository holds two variants of the plugin:                        *)
(*   v1  src/github_tmdb_runtime_hosts/__init__.py   (module functions)    *)
(*   v2  src/plugins.v2/tmdb_runtime_hosts/__init__.py (methods, config)   *)
(* The variable impl says which variant a behaviour is a run of.           *)
(*                                                                         *)
(* Text is modelled as sequences of one-character strings, so that         *)
(* strip / split / lower / ip validation are computed, not assumed.        *)
(***************************************************************************)
EXTENDS Integers, Sequences, FiniteSets, TLC

VARIABLES
    impl,                  \* "v1" or "v2": which plugin variant is loaded
    getaddrinfo,           \* socket.getaddrinfo: the process-wide entry point
    ORIGINAL_GETADDRINFO,  \* module global _ORIGINAL_GETADDRINFO
    RUNTIME_HOSTS,         \* module global _RUNTIME_HOSTS: reference to a dict
    heap,                  \* dict objects: id -> table (hostname -> (ip, af))
    config,                \* v2: self.config
    job,                   \* scheduler holds a job with id runtime_hosts_daily
    mpc,                   \* position of the host's thread in init_plugin / stop
    run,                   \* per thread: the locals and position of _update_all
    reader,                \* a thread calling socket.getaddrinfo(host, port)
    overlap,               \* times a call of the host and a job run may yet overlap
    ptext,                 \* parser harness: the HTTP response handed to _load_hosts
    phosts                 \* parser harness: what _load_hosts returned for it

vars == <<impl, getaddrinfo, ORIGINAL_GETADDRINFO, RUNTIME_HOSTS, heap, config,
          job, mpc, run, reader, overlap, ptext, phosts>>

(***************************************************************************)
(* Bounds                                                                  *)
(***************************************************************************)
\* Frames a resolution call may stack before the interpreter raises
\* RecursionError (sys.getrecursionlimit(), scaled down).
RecursionLimit == 3
\* Alias tokens between the address and the hostname of a line, in the
\* documents of the parser harness.
MaxAliases == 1
\* Times a call of the host may start during a job run, or a job run during
\* a call of the host, in the specification that lets them overlap.
MaxOverlaps == 1

(***************************************************************************)
(* Characters and strings                                                  *)
(***************************************************************************)
UpperLetters == <<"A", "B", "C", "D", "E", "F">>
LowerLetters == <<"a", "b", "c", "d", "e", "f">>
DigitChars == <<"0", "1", "2", "3", "4", "5", "6", "7", "8", "9">>

\* str.isspace for one character
IsSpace(c) == c \in {" ", "\t", "\n", "\r"}

\* str.lower for one character
LowerChar(c) ==
    IF \E i \in 1..Len(UpperLetters) : UpperLetters[i] = c
    THEN LowerLetters[CHOOSE i \in 1..Len(UpperLetters) : UpperLetters[i] = c]
    ELSE c

\* str.lower()
Lower(s) == [i \in 1..Len(s) |-> LowerChar(s[i])]

IsDigit(c) == \E i \in 1..10 : DigitChars[i] = c
DigitVal(c) == (CHOOSE i \in 1..10 : DigitChars[i] = c) - 1
IsHexDigit(c) ==
    \/ IsDigit(c)
    \/ \E i \in 1..Len(UpperLetters) : c = UpperLetters[i] \/ c = LowerLetters[i]

Contains(s, c) == \E i \in 1..Len(s) : s[i] = c

\* str.split(sep) for a one-character separator: empty parts are kept
RECURSIVE SplitOnAcc(_, _, _, _, _)
SplitOnAcc(s, sep, i, cur, acc) ==
    IF i > Len(s) THEN Append(acc, cur)
    ELSE IF s[i] = sep THEN SplitOnAcc(s, sep, i + 1, <<>>, Append(acc, cur))
    ELSE SplitOnAcc(s, sep, i + 1, Append(cur, s[i]), acc)

SplitOn(s, sep) == SplitOnAcc(s, sep, 1, <<>>, <<>>)

\* str.splitlines(): a line break ends a line, "\r\n" is one break, and a
\* text that ends with a break has no empty last line
RECURSIVE SplitLinesAcc(_, _, _, _)
SplitLinesAcc(s, i, cur, acc) ==
    IF i > Len(s) THEN (IF cur = <<>> THEN acc ELSE Append(acc, cur))
    ELSE IF s[i] = "\r" /\ i < Len(s) /\ s[i + 1] = "\n"
         THEN SplitLinesAcc(s, i + 2, <<>>, Append(acc, cur))
    ELSE IF s[i] \in {"\n", "\r"}
         THEN SplitLinesAcc(s, i + 1, <<>>, Append(acc, cur))
    ELSE SplitLinesAcc(s, i + 1, Append(cur, s[i]), acc)

SplitLines(s) == SplitLinesAcc(s, 1, <<>>, <<>>)

\* str.strip()
RECURSIVE LStrip(_)
LStrip(s) == IF s # <<>> /\ IsSpace(Head(s)) THEN LStrip(Tail(s)) ELSE s

RECURSIVE RStrip(_)
RStrip(s) ==
    IF s # <<>> /\ IsSpace(s[Len(s)]) THEN RStrip(SubSeq(s, 1, Len(s) - 1)) ELSE s

Strip(s) == RStrip(LStrip(s))

\* str.split(): runs of whitespace separate the tokens, no token is empty
RECURSIVE SplitAcc(_, _, _, _)
SplitAcc(s, i, cur, acc) ==
    IF i > Len(s) THEN (IF cur = <<>> THEN acc ELSE Append(acc, cur))
    ELSE IF IsSpace(s[i])
         THEN SplitAcc(s, i + 1, <<>>, IF cur = <<>> THEN acc ELSE Append(acc, cur))
    ELSE SplitAcc(s, i + 1, Append(cur, s[i]), acc)

Split(s) == SplitAcc(s, 1, <<>>, <<>>)

StartsWith(s, c) == s # <<>> /\ s[1] = c

(***************************************************************************)
(* ipaddress.ip_address, as _is_valid_ip uses it                           *)
(***************************************************************************)
RECURSIVE DecimalValue(_)
DecimalValue(s) ==
    IF s = <<>> THEN 0
    ELSE 10 * DecimalValue(SubSeq(s, 1, Len(s) - 1)) + DigitVal(s[Len(s)])

\* IPv4Address._parse_octet
ValidOctet(o) ==
    /\ o # <<>>
    /\ \A i \in 1..Len(o) : IsDigit(o[i])
    /\ Len(o) <= 3
    /\ (o # <<"0">> => o[1] # "0")
    /\ DecimalValue(o) <= 255

\* IPv4Address(addr) does not raise
ValidIPv4(s) ==
    LET octets == SplitOn(s, ".")
    IN  /\ Len(octets) = 4
        /\ \A i \in 1..4 : ValidOctet(octets[i])

\* IPv6Address._parse_hextet
ValidHextet(h) ==
    /\ h # <<>>
    /\ \A i \in 1..Len(h) : IsHexDigit(h[i])
    /\ Len(h) <= 4

\* IPv6Address(addr) does not raise (no scope id: "%" is not in the alphabet)
ValidIPv6(s) ==
    LET raw == SplitOn(s, ":")
        embedded == Len(raw) >= 3 /\ Contains(raw[Len(raw)], ".")
        \* an IPv4 suffix is replaced by the two hextets it stands for
        parts == IF embedded
                 THEN SubSeq(raw, 1, Len(raw) - 1) \o <<<<"0">>, <<"0">>>>
                 ELSE raw
        n == Len(parts)
        skips == {i \in 2..(n - 1) : parts[i] = <<>>}
    IN  /\ s # <<>>
        /\ Len(raw) >= 3
        /\ embedded => ValidIPv4(raw[Len(raw)])
        /\ n <= 9
        /\ Cardinality(skips) <= 1
        /\ IF skips # {}
           THEN LET k == CHOOSE i \in skips : TRUE
                    hi0 == k - 1
                    lo0 == n - k
                    hi == IF parts[1] = <<>> THEN hi0 - 1 ELSE hi0
                    lo == IF parts[n] = <<>> THEN lo0 - 1 ELSE lo0
                IN  /\ (parts[1] = <<>> => hi = 0)
                    /\ (parts[n] = <<>> => lo = 0)
                    /\ 8 - (hi + lo) >= 1
                    /\ \A i \in 1..hi : ValidHextet(parts[i])
                    /\ \A i \in (n - lo + 1)..n : ValidHextet(parts[i])
           ELSE /\ n = 8
                /\ \A i \in 1..n : ValidHextet(parts[i])

\* _is_valid_ip(addr): ipaddress.ip_address(addr) does not raise ValueError
is_valid_ip(addr) == ValidIPv4(addr) \/ ValidIPv6(addr)

(***************************************************************************)
(* Host tables (Python dicts) and _load_hosts                              *)
(***************************************************************************)
AF_INET == "AF_INET"
AF_INET6 == "AF_INET6"

\* {}
EmptyTable == [k \in {} |-> 0]

\* hosts[key] = value
DictSet(hosts, key, value) ==
    [k \in DOMAIN hosts \cup {key} |-> IF k = key THEN value ELSE hosts[k]]

\* an update that keeps the entry a key already has
DictUpdateKeepOld(hosts, other) ==
    [k \in DOMAIN hosts \cup DOMAIN other |->
        IF k \in DOMAIN hosts THEN hosts[k] ELSE other[k]]

\* hosts.update(other)
DictUpdate(hosts, other) ==
    [k \in DOMAIN hosts \cup DOMAIN other |->
        IF k \in DOMAIN other THEN other[k] ELSE hosts[k]]

\* the loop body without the .lower() of the hostname
LoadLineKeepCase(hosts, rawline) ==
    LET line == Strip(rawline)
        parts == Split(line)
    IN  IF line # <<>> /\ ~StartsWith(line, "#") /\ Len(parts) >= 2
           /\ is_valid_ip(parts[1])
        THEN DictSet(hosts, parts[Len(parts)],
                     [ip |-> parts[1],
                      af |-> IF Contains(parts[1], ":") THEN AF_INET6 ELSE AF_INET])
        ELSE hosts

\* the body of the for loop of _load_hosts, for one line of resp.text
LoadLine(hosts, rawline) ==
    LET line == Strip(rawline)
        parts == Split(line)
    IN  IF line # <<>> /\ ~StartsWith(line, "#") /\ Len(parts) >= 2
        THEN LET ip == parts[1]
                 host == Lower(parts[Len(parts)])
             IN  IF is_valid_ip(ip)
                 THEN DictSet(hosts, host,
                              [ip |-> ip,
                               af |-> IF Contains(ip, ":") THEN AF_INET6 ELSE AF_INET])
                 ELSE hosts
        ELSE hosts

RECURSIVE LoadLines(_, _, _)
LoadLines(hosts, lines, i) ==
    IF i > Len(lines) THEN hosts
    ELSE LoadLines(LoadLine(hosts, lines[i]), lines, i + 1)

\* _load_hosts(url), given what requests.get(url) answered: resp.ok is false
\* when the request raised or raise_for_status() raised (the table is then
\* still empty in both variants), otherwise resp.text is parsed
load_hosts(resp) ==
    IF resp.ok THEN LoadLines(EmptyTable, SplitLines(resp.text), 1) ELSE EmptyTable

(***************************************************************************)
(* Parser harness: hosts documents built from a pool of tokens             *)
(***************************************************************************)
TokIp4 == <<"1", ".", "1", ".", "1", ".", "1">>
TokIp6 == <<":", ":", "1">>
TokBadIp == <<"2", "5", "6", ".", "1", ".", "1", ".", "1">>
TokHostLower == <<"a">>
TokHostUpper == <<"A">>
TokComment == <<"#">>
TokAlias == <<"x">>

Tokens == {TokIp4, TokIp6, TokBadIp, TokHostLower, TokHostUpper, TokComment}

\* a line as the sequence of its tokens: none, one, or a first and a last
\* token with aliases between them
TokenLines ==
    {<<>>} \cup {<<tok>> : tok \in Tokens}
    \cup {<<first>> \o [i \in 1..n |-> TokAlias] \o <<last>> :
            first \in Tokens, last \in Tokens, n \in 0..MaxAliases}

RECURSIVE Join(_, _)
Join(parts, sep) ==
    IF parts = <<>> THEN <<>>
    ELSE IF Len(parts) = 1 THEN parts[1]
    ELSE parts[1] \o sep \o Join(Tail(parts), sep)

\* the text of a document: "plain" is one space between tokens and "\n"
\* between lines, "padded" indents with a tab, separates with two spaces and
\* ends every line with " \r\n"
RenderLine(toks, style) ==
    IF style = "plain" THEN Join(toks, <<" ">>)
    ELSE <<"\t">> \o Join(toks, <<" ", " ">>) \o <<" ">>

RenderDoc(src, style) ==
    IF style = "plain"
    THEN Join([i \in 1..Len(src) |-> RenderLine(src[i], style)], <<"\n">>)
    ELSE Join([i \in 1..Len(src) |-> RenderLine(src[i], style)], <<"\r", "\n">>)
         \o <<"\r", "\n">>

ParseSources == {<<l>> : l \in TokenLines} \cup (TokenLines \X TokenLines)

ParseResponses ==
    {[ok |-> TRUE, text |-> RenderDoc(src, style), src |-> src] :
        src \in ParseSources, style \in {"plain", "padded"}}
    \cup {[ok |-> FALSE, text |-> <<>>, src |-> <<>>]}

\* requests.get returns and _load_hosts runs on the response
ParseLoad ==
    /\ ~phosts.done
    /\ phosts' = [done |-> TRUE, hosts |-> load_hosts(ptext)]
    /\ UNCHANGED <<impl, getaddrinfo, ORIGINAL_GETADDRINFO, RUNTIME_HOSTS, heap,
                   config, job, mpc, run, reader, overlap, ptext>>

(***************************************************************************)
(* Process state                                                           *)
(***************************************************************************)
Threads == {"main", "sched"}

\* function objects: the platform resolver, and the closure _patch(hosts) /
\* _patch_dns(hosts) builds over the dict object hosts
Orig == [kind |-> "orig", hosts |-> 0]
Patched(d) == [kind |-> "patched", hosts |-> d]

UrlKeys == {"github_url", "probe_url", "tmdb_ipv4_url", "tmdb_ipv6_url"}
DEFAULT_CONFIG == [enable |-> TRUE, urls |-> UrlKeys]
NoConfig == [enable |-> FALSE, urls |-> {}]

\* configurations the host may hand to init_plugin: None, a dict with or
\* without the "enable" key, with all URL keys, only the first, or none
UrlKeySets == {{}, {"github_url"}, UrlKeys}
ConfigInputs ==
    {[given |-> FALSE, has_enable |-> FALSE, enable |-> FALSE, urls |-> {}]}
    \cup {[given |-> TRUE, has_enable |-> TRUE, enable |-> TRUE, urls |-> u] :
            u \in UrlKeySets}
    \cup {[given |-> TRUE, has_enable |-> TRUE, enable |-> FALSE, urls |-> UrlKeys],
          [given |-> TRUE, has_enable |-> FALSE, enable |-> FALSE, urls |-> UrlKeys]}

\* bool(config) is false for None and for an empty dict
Falsy(cfg) == ~cfg.given \/ (~cfg.has_enable /\ cfg.urls = {})

\* documents the three sources may answer with
DocA1 == <<"1", ".", "1", ".", "1", ".", "1", " ", "a">>
DocA2B1 == <<"1", ".", "1", ".", "1", ".", "2", " ", "A", "\n",
             ":", ":", "1", " ", "b", "\n">>
DocB2 == <<":", ":", "2", " ", "x", " ", "b">>
DocNone == <<"#", " ", "a", "\n", "1", ".", "1", ".", "1", " ", "a">>

FetchError == [ok |-> FALSE, text |-> <<>>]
Body(doc) == [ok |-> TRUE, text |-> doc]

\* what requests.get may answer for the primary and for the secondary sources
PrimaryResponses == {FetchError, Body(DocNone), Body(DocA1), Body(DocA2B1)}
SecondaryResponses == {FetchError, Body(DocA2B1), Body(DocB2)}

\* what _load_hosts may return for them
PrimaryLoads == {load_hosts(resp) : resp \in PrimaryResponses}
SecondaryLoads == {load_hosts(resp) : resp \in SecondaryResponses}

\* hostnames and port of the resolution requests
ReqHosts == {<<"A">>, <<"b">>}
ReqPort == 443

IdleRun ==
    [pc |-> "idle", github |-> 0, tmdb |-> 0, combined |-> 0,
     srcP |-> EmptyTable, srcV4 |-> EmptyTable, srcV6 |-> EmptyTable,
     primary_fetches |-> 0, secondary_fetches |-> 0, probes |-> 0, probe_ok |-> FALSE, installs |-> 0,
     outcome |-> "none",
     preFn |-> Orig, preTable |-> EmptyTable]

\* what a run of _update_all was given: the tables its fetches gave and what
\* its probe answered
NoInputs ==
    [srcP |-> EmptyTable, srcV4 |-> EmptyTable, srcV6 |-> EmptyTable,
     probes |-> 0, probe_ok |-> FALSE]
RunInputs(r) ==
    [srcP |-> r.srcP, srcV4 |-> r.srcV4, srcV6 |-> r.srcV6,
     probes |-> r.probes, probe_ok |-> r.probe_ok]

\* the state an enable left behind (none recorded: inputs of no run)
NoSnapshot == [inputs |-> NoInputs, view |-> <<>>]

\* the host's thread outside any plugin method: op is the call that returned
\* last ("none" once a job run has started since), dis counts the disables
\* that returned in a row. cyc follows the calls enable (1, on a process in
\* its state of load), disable (2), enable (3) made with nothing in between;
\* inputs are the inputs of the run of the enable in progress and first is
\* what the enable of step 1 was given and left behind
IdleMain ==
    [op |-> "none", pc |-> "idle", dis |-> 0,
     cyc |-> 0, inputs |-> NoInputs, first |-> NoSnapshot]

NoResult == [kind |-> "none", af |-> "", ip |-> <<>>, host |-> <<>>, port |-> 0]

IdleReader == [pc |-> "idle", host |-> <<>>, lookups |-> 0, result |-> NoResult]

\* the table the installed entry point consults (none when it is the original)
ActiveTable ==
    IF getaddrinfo.kind = "patched" THEN heap[getaddrinfo.hosts] ELSE EmptyTable

\* every reference to a dict object, in a fixed order (0: no reference)
Roots(g, o, r, rn) ==
    <<r, g.hosts, o.hosts,
      rn["main"].github, rn["main"].tmdb, rn["main"].combined,
      rn["sched"].github, rn["sched"].tmdb, rn["sched"].combined,
      rn["main"].preFn.hosts, rn["sched"].preFn.hosts>>

\* object ids are not observable: an object is named by its rank among the
\* objects in the order in which Roots first refers to them
Rank(roots, d) ==
    IF d = 0 THEN 0
    ELSE LET first == CHOOSE i \in 1..Len(roots) :
                          roots[i] = d /\ \A j \in 1..(i - 1) : roots[j] # d
         IN  Cardinality({roots[j] : j \in 1..first} \ {0})

\* the next state of the variables that hold references: socket.getaddrinfo
\* g, _ORIGINAL_GETADDRINFO o, _RUNTIME_HOSTS r, the locals rn and the dict
\* objects h; a dict nothing refers to any more is freed (reference counting)
Store(g, o, r, rn, h) ==
    LET roots == Roots(g, o, r, rn)
        live == {roots[i] : i \in 1..Len(roots)} \ {0}
    IN  /\ getaddrinfo' = [g EXCEPT !.hosts = Rank(roots, @)]
        /\ ORIGINAL_GETADDRINFO' = [o EXCEPT !.hosts = Rank(roots, @)]
        /\ RUNTIME_HOSTS' = Rank(roots, r)
        /\ run' = [t \in Threads |->
                     [rn[t] EXCEPT !.github = Rank(roots, @),
                                   !.tmdb = Rank(roots, @),
                                   !.combined = Rank(roots, @),
                                   !.preFn.hosts = Rank(roots, @)]]
        /\ heap' = [c \in {Rank(roots, d) : d \in live} |->
                      h[CHOOSE d \in live : Rank(roots, d) = c]]

\* a fresh dict object
NewId == Cardinality(DOMAIN heap) + 1

HeapSet(h, d, tbl) == [x \in DOMAIN h \cup {d} |-> IF x = d THEN tbl ELSE h[x]]

\* the process is as the load of the module left it
Fresh ==
    /\ getaddrinfo = Orig
    /\ ORIGINAL_GETADDRINFO = Orig
    /\ heap[RUNTIME_HOSTS] = EmptyTable
    /\ ~job
    /\ config = NoConfig
    /\ mpc = IdleMain

\* the process-wide state, dict objects by their content and by which of
\* the references share one: the entry point and its table, the saved
\* original and its table, _RUNTIME_HOSTS, the job and the stored config
StateView(j) ==
    [entry |-> getaddrinfo.kind,
     table |-> ActiveTable,
     original |-> ORIGINAL_GETADDRINFO.kind,
     original_table |-> IF ORIGINAL_GETADDRINFO.kind = "patched"
                        THEN heap[ORIGINAL_GETADDRINFO.hosts] ELSE EmptyTable,
     original_is_entry |-> ORIGINAL_GETADDRINFO = getaddrinfo,
     runtime_hosts |-> heap[RUNTIME_HOSTS],
     runtime_is_table |-> getaddrinfo.hosts = RUNTIME_HOSTS,
     job |-> j,
     config |-> config]

\* module load: _ORIGINAL_GETADDRINFO = socket.getaddrinfo; _RUNTIME_HOSTS = {}
InitProcess ==
    /\ impl \in {"v1", "v2"}
    /\ getaddrinfo = Orig
    /\ ORIGINAL_GETADDRINFO = Orig
    /\ RUNTIME_HOSTS = 1
    /\ heap = [d \in {1} |-> EmptyTable]
    /\ config = NoConfig
    /\ job = FALSE
    /\ mpc = IdleMain
    /\ run = [t \in Threads |-> IdleRun]
    /\ reader = IdleReader

Init ==
    /\ InitProcess
    /\ overlap = 0
    /\ ptext = [ok |-> FALSE, text |-> <<>>, src |-> <<>>]
    /\ phosts = [done |-> TRUE, hosts |-> EmptyTable]

(***************************************************************************)
(* _update_all, one step per statement that other threads can observe      *)
(***************************************************************************)
\* v2 reads its URLs with self.config[key]: a missing key raises KeyError
MissingKey(key) == impl = "v2" /\ key \notin config.urls

\* an exception leaves _update_all from the statement thread t is at
Raise(t) == [run EXCEPT ![t].pc = "done", ![t].outcome = "raised"]

\* the call of _update_all by thread t; preFn and preTable remember the
\* entry point and its table as the run found them, until its first install
StartRun(t) ==
    [run EXCEPT ![t] = [IdleRun EXCEPT !.pc = "load_github",
                                        !.outcome = "running",
                                        !.preFn = getaddrinfo,
                                        !.preTable = ActiveTable]]

\* a step of _update_all changes the locals to rn and the dict objects to h
Locals(rn, h) ==
    /\ Store(getaddrinfo, ORIGINAL_GETADDRINFO, RUNTIME_HOSTS, rn, h)
    /\ UNCHANGED <<impl, config, job, mpc, reader, overlap, ptext, phosts>>

\* a step of _update_all assigns socket.getaddrinfo = g
Install(g, rn) ==
    /\ Store(g, ORIGINAL_GETADDRINFO, RUNTIME_HOSTS, rn, heap)
    /\ UNCHANGED <<impl, config, job, mpc, reader, overlap, ptext, phosts>>

\* a run that goes on with an empty primary table
PrimaryAlwaysUsable(hosts) == TRUE

\* if not github_hosts: return
PrimaryUsable(hosts) == hosts # EmptyTable

\* github_hosts = _load_hosts(github_url); if not github_hosts: return
LoadGithub(t) ==
    /\ run[t].pc = "load_github"
    /\ IF MissingKey("github_url")
       THEN Locals(Raise(t), heap)
       ELSE \E hosts \in PrimaryLoads :
              LET d == NewId
              IN  IF PrimaryUsable(hosts)
                  THEN Locals([run EXCEPT ![t].pc = "patch1",
                                          ![t].github = d,
                                          ![t].srcP = hosts,
                                          ![t].primary_fetches = @ + 1],
                              HeapSet(heap, d, hosts))
                  ELSE Locals([run EXCEPT ![t].pc = "done",
                                          ![t].primary_fetches = @ + 1,
                                          ![t].outcome = "empty_primary"],
                              heap)

\* a run that probes without having installed the primary table
PatchPrimarySkipped(t) ==
    /\ run[t].pc = "patch1"
    /\ Locals([run EXCEPT ![t].pc = "probe"], heap)

\* _patch(github_hosts) / self._patch_dns(github_hosts)
PatchPrimary(t) ==
    /\ run[t].pc = "patch1"
    /\ Install(Patched(run[t].github),
               [run EXCEPT ![t].pc = "probe", ![t].installs = @ + 1,
                           ![t].preFn = Orig, ![t].preTable = EmptyTable])

\* a run that fetches the secondary sources whatever the probe answered
AfterProbeIgnored(reachable) == "load_ipv4"

\* where _update_all goes on after the probe answered
AfterProbe(reachable) == IF reachable THEN "load_ipv4" ELSE "done"

\* if not _probe_github(): return
Probe(t) ==
    /\ run[t].pc = "probe"
    /\ IF MissingKey("probe_url")
       THEN Locals(Raise(t), heap)
       ELSE \E reachable \in BOOLEAN :
              Locals([run EXCEPT ![t].probes = @ + 1,
                                 ![t].probe_ok = reachable,
                                 ![t].pc = AfterProbe(reachable),
                                 ![t].outcome =
                                     IF AfterProbe(reachable) = "done"
                                     THEN "probe_failed" ELSE @],
                     heap)

\* a run that gives up when the first secondary source gives nothing
LoadIpv4Fatal(t) ==
    /\ run[t].pc = "load_ipv4"
    /\ IF MissingKey("tmdb_ipv4_url")
       THEN Locals(Raise(t), heap)
       ELSE \E hosts \in SecondaryLoads :
              LET d == NewId
              IN  IF hosts = EmptyTable
                  THEN Locals([run EXCEPT ![t].pc = "done",
                                          ![t].srcV4 = hosts,
                                          ![t].secondary_fetches = @ + 1,
                                          ![t].outcome = "secondary_failed"],
                              heap)
                  ELSE Locals([run EXCEPT ![t].pc = "load_ipv6",
                                          ![t].tmdb = d,
                                          ![t].srcV4 = hosts,
                                          ![t].secondary_fetches = @ + 1],
                              HeapSet(heap, d, hosts))

\* tmdb_hosts = _load_hosts(tmdb_ipv4_url)
LoadIpv4(t) ==
    /\ run[t].pc = "load_ipv4"
    /\ IF MissingKey("tmdb_ipv4_url")
       THEN Locals(Raise(t), heap)
       ELSE \E hosts \in SecondaryLoads :
              LET d == NewId
              IN  Locals([run EXCEPT ![t].pc = "load_ipv6",
                                     ![t].tmdb = d,
                                     ![t].srcV4 = hosts,
                                     ![t].secondary_fetches = @ + 1],
                         HeapSet(heap, d, hosts))

\* tmdb_hosts.update(_load_hosts(tmdb_ipv6_url)); tmdb_hosts is local
LoadIpv6(t) ==
    /\ run[t].pc = "load_ipv6"
    /\ IF MissingKey("tmdb_ipv6_url")
       THEN Locals(Raise(t), heap)
       ELSE \E hosts \in SecondaryLoads :
              LET d == run[t].tmdb
              IN  Locals([run EXCEPT ![t].pc = "merge",
                                     ![t].srcV6 = hosts,
                                     ![t].secondary_fetches = @ + 1],
                         HeapSet(heap, d, DictUpdate(heap[d], hosts)))

\* keys tmdb_hosts still has to write into github_hosts
Pending(t) ==
    LET G == heap[run[t].github]
        T == heap[run[t].tmdb]
    IN  {k \in DOMAIN T : k \notin DOMAIN G \/ G[k] # T[k]}

\* the entries of tbl under the keys ks
Restrict(tbl, ks) == [k \in ks |-> tbl[k]]

\* v1: github_hosts.update(tmdb_hosts) writes into the dict the installed
\*     closure reads, with no lock; a concurrent reader may see the update
\*     whole (one step) or entry by entry (several steps)
\* v2: combined_hosts = {**github_hosts, **tmdb_hosts} builds a new dict
Merge(t) ==
    /\ run[t].pc = "merge"
    /\ IF impl = "v1"
       THEN IF Pending(t) = {}
            THEN Locals([run EXCEPT ![t].pc = "patch2"], heap)
            ELSE \E ks \in (SUBSET Pending(t)) \ {{}} :
                   LET g == run[t].github
                       written == DictUpdate(heap[g],
                                             Restrict(heap[run[t].tmdb], ks))
                   IN  Locals([run EXCEPT ![t].pc =
                                   IF ks = Pending(t) THEN "patch2" ELSE "merge"],
                              HeapSet(heap, g, written))
       ELSE LET d == NewId
                combined == DictUpdate(heap[run[t].github], heap[run[t].tmdb])
            IN  Locals([run EXCEPT ![t].pc = "patch2", ![t].combined = d],
                       HeapSet(heap, d, combined))

\* v1: _patch(github_hosts), the last statement that changes state
\* v2: self._patch_dns(combined_hosts)
PatchMerged(t) ==
    /\ run[t].pc = "patch2"
    /\ Install(Patched(IF impl = "v1" THEN run[t].github ELSE run[t].combined),
               [run EXCEPT ![t].installs = @ + 1,
                           ![t].pc = IF impl = "v1" THEN "done" ELSE "set_runtime",
                           ![t].outcome = IF impl = "v1" THEN "activated" ELSE @])

\* v2: global _RUNTIME_HOSTS; _RUNTIME_HOSTS = combined_hosts
SetRuntimeHosts(t) ==
    /\ run[t].pc = "set_runtime"
    /\ Store(getaddrinfo, ORIGINAL_GETADDRINFO, run[t].combined,
             [run EXCEPT ![t].pc = "done", ![t].outcome = "activated"], heap)
    /\ UNCHANGED <<impl, config, job, mpc, reader, overlap, ptext, phosts>>

(***************************************************************************)
(* Plugin lifecycle, run by the host's thread                              *)
(***************************************************************************)
\* the host calls one plugin method at a time; with no overlap left it also
\* waits for a running job before it calls
HostMayCall == mpc.pc = "idle" /\ (overlap > 0 \/ run["sched"].pc = "idle")

\* a call or a job run that starts while the other thread is busy in the
\* plugin is one overlap
UsesOverlap(busy) == overlap' = IF busy THEN overlap - 1 ELSE overlap

\* the host's thread is idle and about to call while a job run is in flight
CallDuringJob == mpc.pc = "idle" /\ run["sched"].pc # "idle"

\* v2: self.config = config or DEFAULT_CONFIG, read with .get("enable", True)
StoredConfig(cfg) ==
    IF Falsy(cfg) THEN DEFAULT_CONFIG
    ELSE [enable |-> IF cfg.has_enable THEN cfg.enable ELSE TRUE, urls |-> cfg.urls]

\* v1: enabled = bool(config and config.get("enable"))
\* v2: self.config.get("enable", True)
Enabled(cfg) ==
    IF impl = "v1" THEN cfg.given /\ cfg.has_enable /\ cfg.enable
    ELSE StoredConfig(cfg).enable

\* the host's thread moves to m; nothing that holds a reference changes
HostStep(m) ==
    /\ mpc' = m
    /\ Store(getaddrinfo, ORIGINAL_GETADDRINFO, RUNTIME_HOSTS, run, heap)
    /\ UsesOverlap(CallDuringJob)
    /\ UNCHANGED <<impl, reader, ptext, phosts>>

\* a disable has returned: one more in a row
Returned(m) == [m EXCEPT !.pc = "idle", !.dis = IF @ = 0 THEN 1 ELSE 2]

\* the calls so far are not the start of enable; disable; enable
Forget(m) == [m EXCEPT !.cyc = 0, !.inputs = NoInputs, !.first = NoSnapshot]

\* the host enters the enable branch of init_plugin
EnterEnable(m) ==
    IF Fresh THEN [m EXCEPT !.op = "enable", !.pc = "update", !.cyc = 1]
    ELSE IF m.cyc = 2 THEN [m EXCEPT !.op = "enable", !.pc = "update", !.cyc = 3]
    ELSE [Forget(m) EXCEPT !.op = "enable", !.pc = "update"]

\* the host enters _disable, as operation op, at the statement pc
EnterDisable(m, op, pc) ==
    IF m.cyc = 1 /\ m.op = "enable"
    THEN [m EXCEPT !.op = op, !.pc = pc, !.cyc = 2, !.inputs = NoInputs]
    ELSE [Forget(m) EXCEPT !.op = op, !.pc = pc]

\* init_plugin(config) up to the call of _update_all (enable) or to the first
\* statement of _disable
init_plugin(cfg) ==
    /\ HostMayCall
    /\ config' = IF impl = "v2" THEN StoredConfig(cfg) ELSE config
    /\ job' = job
    /\ IF Enabled(cfg)
       THEN /\ mpc' = EnterEnable(mpc)
            /\ Store(getaddrinfo, ORIGINAL_GETADDRINFO, RUNTIME_HOSTS,
                     StartRun("main"), heap)
       ELSE /\ mpc' = EnterDisable(mpc, "disable",
                                     IF impl = "v1" THEN "stop_service"
                                     ELSE "restore")
            /\ Store(getaddrinfo, ORIGINAL_GETADDRINFO, RUNTIME_HOSTS, run, heap)
    /\ UsesOverlap(CallDuringJob)
    /\ UNCHANGED <<impl, reader, ptext, phosts>>

\* v2: stop_plugin() up to the first statement of _disable
stop_plugin ==
    /\ impl = "v2"
    /\ HostMayCall
    /\ HostStep(EnterDisable(mpc, "stop", "restore"))
    /\ UNCHANGED <<config, job>>

\* _update_all returns to _enable, or its exception leaves _enable and
\* init_plugin (nothing catches it)
UpdateReturnsToEnable ==
    /\ mpc.pc = "update"
    /\ run["main"].pc = "done"
    /\ mpc' = IF run["main"].outcome = "raised"
              THEN [Forget(mpc) EXCEPT !.op = "raised", !.pc = "idle", !.dis = 0]
              ELSE [mpc EXCEPT !.pc = IF impl = "v1" THEN "register_job"
                                      ELSE "capture",
                               !.inputs = IF mpc.cyc \in {1, 3}
                                          THEN RunInputs(run["main"]) ELSE @]
    /\ Store(getaddrinfo, ORIGINAL_GETADDRINFO, RUNTIME_HOSTS,
             [run EXCEPT !["main"] = IdleRun], heap)
    /\ UNCHANGED <<impl, config, job, reader, overlap, ptext, phosts>>

\* v2 _enable: global _ORIGINAL_GETADDRINFO
\*             _ORIGINAL_GETADDRINFO = socket.getaddrinfo
CaptureOriginal ==
    /\ mpc.pc = "capture"
    /\ mpc' = [mpc EXCEPT !.pc = "register_job"]
    /\ Store(getaddrinfo, getaddrinfo, RUNTIME_HOSTS, run, heap)
    /\ UNCHANGED <<impl, config, job, reader, overlap, ptext, phosts>>

\* v1 _register_job: stop_service(); scheduler.add_job(... id="runtime_hosts_daily")
\* v2 _register_job: remove_job(...); if config.get("enable", True): add_job(...)
\* then init_plugin returns
register_job ==
    /\ mpc.pc = "register_job"
    /\ job' = IF impl = "v1" THEN TRUE ELSE config.enable
    /\ HostStep(IF mpc.op = "disable" THEN Returned(mpc)
                ELSE [mpc EXCEPT !.pc = "idle", !.dis = 0,
                                 !.first = IF mpc.cyc = 1
                                           THEN [inputs |-> mpc.inputs,
                                                 view |-> StateView(job')]
                                           ELSE @])
    /\ UNCHANGED config

\* a stop_service that leaves the job registered
stop_serviceKeepsJob ==
    /\ impl = "v1"
    /\ \/ /\ mpc.pc = "stop_service"
          /\ HostStep([mpc EXCEPT !.pc = "restore"])
       \/ /\ HostMayCall
          /\ HostStep([Forget(mpc) EXCEPT !.op = "stop", !.dis = 0])
    /\ UNCHANGED <<config, job>>

\* v1 stop_service: scheduler.remove_job("runtime_hosts_daily"), any exception
\* swallowed; as the first statement of _disable, or called by the host
stop_service ==
    /\ impl = "v1"
    /\ \/ /\ mpc.pc = "stop_service"
          /\ HostStep([mpc EXCEPT !.pc = "restore"])
       \/ /\ HostMayCall
          /\ HostStep([Forget(mpc) EXCEPT !.op = "stop", !.dis = 0])
    /\ job' = FALSE
    /\ UNCHANGED config

\* a disable that exchanges the entry point and the saved original
RestoreResolverSwapped ==
    /\ mpc.pc = "restore"
    /\ mpc' = [mpc EXCEPT !.pc = "clear"]
    /\ Store(ORIGINAL_GETADDRINFO, getaddrinfo, RUNTIME_HOSTS, run, heap)
    /\ UNCHANGED <<impl, config, job, reader, overlap, ptext, phosts>>

\* _disable: socket.getaddrinfo = _ORIGINAL_GETADDRINFO
RestoreResolver ==
    /\ mpc.pc = "restore"
    /\ mpc' = [mpc EXCEPT !.pc = "clear"]
    /\ Store(ORIGINAL_GETADDRINFO, ORIGINAL_GETADDRINFO, RUNTIME_HOSTS, run, heap)
    /\ UNCHANGED <<impl, config, job, reader, overlap, ptext, phosts>>

\* _disable: _RUNTIME_HOSTS.clear() empties the dict object in place; v1's
\* init_plugin then returns, v2 goes on to _register_job or remove_job
ClearRuntimeHosts ==
    /\ mpc.pc = "clear"
    /\ mpc' = IF impl = "v1" THEN Returned(mpc)
              ELSE [mpc EXCEPT !.pc = IF mpc.op = "stop" THEN "remove_job"
                                      ELSE "register_job"]
    /\ Store(getaddrinfo, ORIGINAL_GETADDRINFO, RUNTIME_HOSTS, run,
             HeapSet(heap, RUNTIME_HOSTS, EmptyTable))
    /\ UNCHANGED <<impl, config, job, reader, overlap, ptext, phosts>>

\* v2 stop_plugin: remove_job("runtime_hosts_daily"), then it returns
RemoveJob ==
    /\ mpc.pc = "remove_job"
    /\ job' = FALSE
    /\ HostStep(Returned(mpc))
    /\ UNCHANGED config

(***************************************************************************)
(* The scheduler's thread: the cron job runs _update_all                   *)
(***************************************************************************)
\* the trigger fires; max_instances=1 and coalesce=True keep it to one run
TriggerJob ==
    /\ job
    /\ run["sched"].pc = "idle"
    /\ overlap > 0 \/ mpc.pc = "idle"
    /\ mpc' = IF mpc.pc = "idle" THEN IdleMain ELSE mpc
    /\ Store(getaddrinfo, ORIGINAL_GETADDRINFO, RUNTIME_HOSTS, StartRun("sched"),
             heap)
    /\ UsesOverlap(mpc.pc # "idle")
    /\ UNCHANGED <<impl, config, job, reader, ptext, phosts>>

\* _update_all returns to the scheduler (which logs an exception of the job)
JobReturns ==
    /\ run["sched"].pc = "done"
    /\ Locals([run EXCEPT !["sched"] = IdleRun], heap)

(***************************************************************************)
(* A resolution request: socket.getaddrinfo(host, port) on some thread     *)
(***************************************************************************)
\* what the platform resolver answers: a function of the arguments it gets
OrigResult(host, port) ==
    [kind |-> "orig", af |-> "", ip |-> <<>>, host |-> host, port |-> port]

\* [(family, socket.SOCK_STREAM, 0, "", (ip, port))]
Synthesized(item, port) ==
    [kind |-> "synth", af |-> item.af, ip |-> item.ip, host |-> <<>>, port |-> port]

RecursionError ==
    [kind |-> "RecursionError", af |-> "", ip |-> <<>>, host |-> <<>>, port |-> 0]

\* a lookup without the .lower() of the requested name
HitKeepCase(hosts, host) == host \in DOMAIN hosts

\* item = hosts.get(host.lower()); if item:
Hit(hosts, host) == Lower(host) \in DOMAIN hosts
Item(hosts, host) == hosts[Lower(host)]

\* the frames of one call: fn is the function entered, depth the frames
\* below it. The platform resolver answers; a patched function answers from
\* its dict or calls _ORIGINAL_GETADDRINFO (a module global, read at the call)
RECURSIVE Frames(_, _, _)
Frames(fn, host, depth) ==
    IF depth >= RecursionLimit
    THEN [result |-> RecursionError, lookups |-> depth]
    ELSE IF fn.kind = "orig"
    THEN [result |-> OrigResult(host, ReqPort), lookups |-> depth]
    ELSE IF Hit(heap[fn.hosts], host)
    THEN [result |-> Synthesized(Item(heap[fn.hosts], host), ReqPort),
          lookups |-> depth + 1]
    ELSE Frames(ORIGINAL_GETADDRINFO, host, depth + 1)

\* socket.getaddrinfo(host, port) as the process answers it now
Resolve(host) == Frames(getaddrinfo, host, 0)

\* a thread calls socket.getaddrinfo(host, port) and gets its answer
ResolveCall(host) ==
    /\ reader.pc = "idle"
    /\ reader' = [pc |-> "done", host |-> host,
                  result |-> Resolve(host).result,
                  lookups |-> Resolve(host).lookups]
    /\ UNCHANGED <<impl, getaddrinfo, ORIGINAL_GETADDRINFO, RUNTIME_HOSTS, heap,
                   config, job, mpc, run, overlap, ptext, phosts>>

\* the caller goes on with the answer (or with the RecursionError)
ResolveReturn ==
    /\ reader.pc = "done"
    /\ reader' = IdleReader
    /\ UNCHANGED <<impl, getaddrinfo, ORIGINAL_GETADDRINFO, RUNTIME_HOSTS, heap,
                   config, job, mpc, run, overlap, ptext, phosts>>

(***************************************************************************)
(* Specifications                                                          *)
(***************************************************************************)
UpdateStep(t) ==
    \/ LoadGithub(t)
    \/ PatchPrimary(t)
    \/ Probe(t)
    \/ LoadIpv4(t)
    \/ LoadIpv6(t)
    \/ Merge(t)
    \/ PatchMerged(t)
    \/ SetRuntimeHosts(t)

Next ==
    \/ \E cfg \in ConfigInputs : init_plugin(cfg)
    \/ stop_plugin
    \/ stop_service
    \/ \E t \in Threads : UpdateStep(t)
    \/ UpdateReturnsToEnable
    \/ CaptureOriginal
    \/ register_job
    \/ RestoreResolver
    \/ ClearRuntimeHosts
    \/ RemoveJob
    \/ TriggerJob
    \/ JobReturns
    \/ \E host \in ReqHosts : ResolveCall(host)
    \/ ResolveReturn

\* lifecycle calls and job runs one after the other, resolution requests at
\* any moment
Spec == Init /\ [][Next]_vars

\* nothing in the code keeps the host's thread from calling init_plugin,
\* stop_plugin or stop_service while the scheduler's thread is inside
\* _update_all, nor the trigger from firing during such a call
OverlapInit ==
    /\ InitProcess
    /\ overlap = MaxOverlaps
    /\ ptext = [ok |-> FALSE, text |-> <<>>, src |-> <<>>]
    /\ phosts = [done |-> TRUE, hosts |-> EmptyTable]

\* the inputs of the overlapping runs: configurations with every URL key,
\* a primary source that fails or gives one entry, secondary sources that
\* fail or give one other entry
OverlapConfigs ==
    {cfg \in ConfigInputs : cfg.given /\ cfg.has_enable /\ cfg.urls = UrlKeys}
OverlapInputs(r) ==
    /\ r.srcP \in {EmptyTable, load_hosts(Body(DocA1))}
    /\ r.srcV4 \in {EmptyTable, load_hosts(Body(DocB2))}
    /\ r.srcV6 \in {EmptyTable, load_hosts(Body(DocB2))}

\* the calls of the host and the runs of _update_all; resolution requests
\* change nothing of the process state and are left out
OverlapNext ==
    \/ \E cfg \in OverlapConfigs : init_plugin(cfg)
    \/ stop_plugin
    \/ stop_service
    \/ \E t \in Threads : LoadGithub(t) /\ OverlapInputs(run'[t])
    \/ \E t \in Threads : PatchPrimary(t)
    \/ \E t \in Threads : Probe(t)
    \/ \E t \in Threads : LoadIpv4(t) /\ OverlapInputs(run'[t])
    \/ \E t \in Threads : LoadIpv6(t) /\ OverlapInputs(run'[t])
    \/ \E t \in Threads : Merge(t)
    \/ \E t \in Threads : PatchMerged(t)
    \/ \E t \in Threads : SetRuntimeHosts(t)
    \/ UpdateReturnsToEnable
    \/ CaptureOriginal
    \/ register_job
    \/ RestoreResolver
    \/ ClearRuntimeHosts
    \/ RemoveJob
    \/ TriggerJob
    \/ JobReturns

SpecOverlap == OverlapInit /\ [][OverlapNext]_vars

\* hosts documents through _load_hosts (the same function in both variants)
ParseInit ==
    /\ InitProcess
    /\ impl = "v1"
    /\ overlap = 0
    /\ ptext \in ParseResponses
    /\ phosts = [done |-> FALSE, hosts |-> EmptyTable]

ParseNext == ParseLoad

ParseSpec == ParseInit /\ [][ParseNext]_vars

(***************************************************************************)
(* Properties                                                              *)
(***************************************************************************)
\* no plugin method and no run of _update_all is in progress
Quiescent == mpc.pc = "idle" /\ \A t \in Threads : run[t].pc = "idle"

\* what a resolution request for host gets when the table tbl alone decides
Answer(tbl, host) ==
    IF Lower(host) \in DOMAIN tbl
    THEN Synthesized(tbl[Lower(host)], ReqPort)
    ELSE OrigResult(host, ReqPort)

\* every request is answered as the table tbl alone would answer it
Observes(tbl) == \A host \in ReqHosts : Resolve(host).result = Answer(tbl, host)

\* the entry each hostname gets from the last source that defines it, in the
\* order primary, first secondary, second secondary
LastDefined(r, k) ==
    IF k \in DOMAIN r.srcV6 THEN r.srcV6[k]
    ELSE IF k \in DOMAIN r.srcV4 THEN r.srcV4[k]
    ELSE r.srcP[k]

SourceKeys(r) == DOMAIN r.srcP \cup DOMAIN r.srcV4 \cup DOMAIN r.srcV6

MergedTable(r) == [k \in SourceKeys(r) |-> LastDefined(r, k)]

\* C1: between operations (after any sequence of enable, scheduled refresh and
\* disable), a request for a hostname that is not a key of the active table
\* is answered by the platform's original resolver, with the arguments it was
\* given, and the call returns
C1_MissReachesOriginal ==
    Quiescent =>
        \A host \in ReqHosts :
            Lower(host) \notin DOMAIN ActiveTable =>
                Resolve(host).result = OrigResult(host, ReqPort)

\* C2: when disable() has returned, socket.getaddrinfo is exactly the
\* original resolver, whatever enable / refresh / disable cycles went before
C2_DisableRestoresOriginal ==
    (mpc.pc = "idle" /\ mpc.dis >= 1) => getaddrinfo = Orig

\* C3: while a refresh run is between its call and its return, resolution
\* requests see, for all hostnames together, the table that was active before
\* a swap or the complete table after it: the table the run found until the
\* phase-1 install, the primary table from then on, and the primary or the
\* complete merged table once the merge has started
C3_OldOrNewTable ==
    \A t \in Threads :
        /\ run[t].pc \in {"load_github", "patch1"} =>
               Observes(run[t].preTable) \/ Observes(run[t].srcP)
        /\ run[t].pc \in {"probe", "load_ipv4", "load_ipv6"} =>
               Observes(run[t].srcP)
        /\ run[t].pc \in {"merge", "patch2", "set_runtime"} =>
               Observes(run[t].srcP) \/ Observes(MergedTable(run[t]))

\* C4: a run whose primary table is not empty and whose probe answered false
\* ends with no secondary source fetched and with the primary table of that
\* run, and nothing else, as the active table
C4_GateHonored ==
    \A t \in Threads :
        (/\ run[t].pc = "done"
         /\ run[t].srcP # EmptyTable
         /\ run[t].probes = 1
         /\ ~run[t].probe_ok)
        => /\ run[t].secondary_fetches = 0
           /\ getaddrinfo = Patched(run[t].github)
           /\ ActiveTable = run[t].srcP

C4_Witness ==
    \E t \in Threads :
        /\ run[t].pc = "done"
        /\ run[t].srcP # EmptyTable
        /\ run[t].probes = 1
        /\ ~run[t].probe_ok
        /\ ActiveTable = run[t].srcP

\* C5: a run whose primary fetch gave an empty table ends without an install,
\* a probe or a secondary fetch, and leaves the entry point and the active
\* table as the run found them
C5_EmptyPrimaryAborts ==
    \A t \in Threads :
        (/\ run[t].pc = "done"
         /\ run[t].primary_fetches = 1
         /\ run[t].srcP = EmptyTable)
        => /\ run[t].installs = 0
           /\ run[t].probes = 0
           /\ run[t].secondary_fetches = 0
           /\ getaddrinfo = run[t].preFn
           /\ ActiveTable = run[t].preTable

\* an empty primary fetch met by a run that found a table installed
C5_Witness ==
    \E t \in Threads :
        /\ run[t].pc = "done"
        /\ run[t].primary_fetches = 1
        /\ run[t].srcP = EmptyTable
        /\ run[t].preTable # EmptyTable
        /\ ActiveTable = run[t].preTable

\* C6: a request for a hostname whose lowercased form is a key of the
\* installed table gets the one synthesized result with that entry's family
\* and address and the requested port, from the first lookup, without the
\* original resolver being called
C6_HitIsSynthesized ==
    \A host \in ReqHosts :
        Lower(host) \in DOMAIN ActiveTable =>
            /\ Resolve(host).result =
                   [kind |-> "synth",
                    af |-> ActiveTable[Lower(host)].af,
                    ip |-> ActiveTable[Lower(host)].ip,
                    host |-> <<>>,
                    port |-> ReqPort]
            /\ Resolve(host).lookups = 1

\* a request in upper case was answered from the entry under the lower-case key
C6_Witness ==
    /\ reader.pc = "done"
    /\ reader.host = <<"A">>
    /\ reader.result.kind = "synth"
    /\ <<"a">> \in DOMAIN ActiveTable
    /\ reader.result.ip = ActiveTable[<<"a">>].ip

\* C7: when a run has reached Activated, the active table holds, for every
\* hostname some source defines, the entry of the last source defining it in
\* the order primary, first secondary, second secondary, and nothing else
C7_MergeRightBias ==
    \A t \in Threads :
        (run[t].pc = "done" /\ run[t].outcome = "activated") =>
            /\ DOMAIN ActiveTable = SourceKeys(run[t])
            /\ \A k \in SourceKeys(run[t]) : ActiveTable[k] = LastDefined(run[t], k)

\* all three sources define a hostname, and the two secondaries differ on it
C7_Witness ==
    \E t \in Threads :
        /\ run[t].pc = "done"
        /\ run[t].outcome = "activated"
        /\ \E k \in DOMAIN run[t].srcP \cap DOMAIN run[t].srcV4 \cap DOMAIN run[t].srcV6 :
               /\ run[t].srcV4[k] # run[t].srcV6[k]
               /\ run[t].srcP[k] # run[t].srcV6[k]
               /\ ActiveTable[k] = run[t].srcV6[k]

\* the key a hostname token is stored under
ExpectedKey(tok) == IF tok = TokHostUpper THEN TokHostLower ELSE tok

\* the lines of the document, by number, that are to give an entry
EntryLines(src) ==
    {i \in 1..Len(src) : Len(src[i]) >= 2 /\ src[i][1] \in {TokIp4, TokIp6}}

LastToken(toks) == toks[Len(toks)]

\* C8: parsing yields exactly one entry per hostname named by a line with at
\* least two tokens and a valid address first (comment lines, blank lines,
\* one-token lines and lines with an invalid address give nothing and raise
\* nothing): keyed by the lowercased last token, holding the first token as
\* address, IPv6 iff the address has a ":", the later line winning
C8_ParseCorrect ==
    phosts.done =>
        LET src == ptext.src
            good == EntryLines(src)
        IN  /\ DOMAIN phosts.hosts = {ExpectedKey(LastToken(src[i])) : i \in good}
            /\ \A i \in good :
                 (\A j \in good :
                      j > i => ExpectedKey(LastToken(src[j]))
                               # ExpectedKey(LastToken(src[i])))
                 => phosts.hosts[ExpectedKey(LastToken(src[i]))] =
                        [ip |-> src[i][1],
                         af |-> IF src[i][1] = TokIp6 THEN AF_INET6 ELSE AF_INET]

\* two lines name the same host in different case, the later with an alias
C8_Witness ==
    /\ phosts.done
    /\ ptext.src = <<<<TokIp4, TokHostLower>>, <<TokIp6, TokAlias, TokHostUpper>>>>
    /\ DOMAIN phosts.hosts = {TokHostLower}
    /\ phosts.hosts[TokHostLower] = [ip |-> TokIp6, af |-> AF_INET6]

\* C9: when disable() has returned twice in a row, the entry point is the
\* original resolver, the dict _RUNTIME_HOSTS is empty and no job is
\* registered
C9_DisableTwice ==
    (mpc.pc = "idle" /\ mpc.dis = 2) =>
        /\ getaddrinfo = Orig
        /\ heap[RUNTIME_HOSTS] = EmptyTable
        /\ ~job

\* C10: no exception leaves _update_all, whatever the sources and the probe
\* answer and whatever configuration was supplied
C10_NoExceptionLeavesUpdate ==
    \A t \in Threads : run[t].outcome # "raised"

\* C11: whatever installs went before, only the table installed last answers:
\* a hostname that is not a key of it is answered by the original resolver,
\* never from an earlier table, and the request passes through one table
\* lookup at most on its way there
C11_LastInstallWins ==
    \A host \in ReqHosts :
        Lower(host) \notin DOMAIN ActiveTable =>
            /\ Resolve(host).result.kind # "synth"
            /\ Resolve(host).result = OrigResult(host, ReqPort)
            /\ Resolve(host).lookups <= 1

HostnameLetters ==
    {"a", "b", "c", "d", "e", "f", "g", "h", "i", "j", "k", "l", "m",
     "n", "o", "p", "q", "r", "s", "t", "u", "v", "w", "x", "y", "z"}

\* a label of a hostname: letters in lower case, digits and inner hyphens
ValidLabel(l) ==
    /\ l # <<>>
    /\ \A i \in 1..Len(l) : l[i] \in HostnameLetters \/ IsDigit(l[i]) \/ l[i] = "-"
    /\ l[1] # "-"
    /\ l[Len(l)] # "-"

\* a syntactically valid lowercase hostname: labels separated by single
\* dots, no trailing dot, and not an IP literal
ValidHostname(k) ==
    /\ k # <<>>
    /\ \A i \in 1..Len(SplitOn(k, ".")) : ValidLabel(SplitOn(k, ".")[i])
    /\ ~is_valid_ip(k)

\* the address of an entry is an IP literal of the family the entry declares
AddressMatchesFamily(item) ==
    \/ item.af = AF_INET /\ ValidIPv4(item.ip)
    \/ item.af = AF_INET6 /\ ValidIPv6(item.ip)

\* C13: every key of a parsed table is a syntactically valid lowercase
\* hostname (no comment token, no IP literal, no trailing dot) and every
\* entry's address is a valid IP literal of the entry's declared family
C13_KeysAndAddressesValid ==
    phosts.done =>
        \A k \in DOMAIN phosts.hosts :
            /\ ValidHostname(k)
            /\ AddressMatchesFamily(phosts.hosts[k])

\* C14: whenever no plugin method and no refresh run is in progress, the dict
\* _RUNTIME_HOSTS holds the table the installed entry point consults (the
\* primary table after a failed probe, the merged table after an activated
\* run, empty with no interceptor at startup and after disable)
C14_RuntimeHostsIsActiveTable ==
    Quiescent =>
        /\ heap[RUNTIME_HOSTS] = ActiveTable
        /\ (heap[RUNTIME_HOSTS] = EmptyTable => getaddrinfo = Orig)

Counts(r) == <<r.primary_fetches, r.installs, r.probes, r.secondary_fetches>>

\* C16: the steps of a run come in one order, each source and the probe
\* contacted once at most: the primary fetch, the install of the primary
\* table, the probe (made with the primary table of this run installed), the
\* first and then the second secondary fetch, the install of the merged table
C16_StepOrder ==
    \A t \in Threads :
        LET r == run[t]
        IN  /\ r.pc \in {"idle", "load_github"} => Counts(r) = <<0, 0, 0, 0>>
            /\ r.pc = "patch1" => Counts(r) = <<1, 0, 0, 0>>
            /\ r.pc = "probe" =>
                   /\ Counts(r) = <<1, 1, 0, 0>>
                   /\ getaddrinfo = Patched(r.github)
                   /\ ActiveTable = r.srcP
            /\ r.pc = "load_ipv4" => Counts(r) = <<1, 1, 1, 0>> /\ r.probe_ok
            /\ r.pc = "load_ipv6" => Counts(r) = <<1, 1, 1, 1>>
            /\ r.pc \in {"merge", "patch2"} => Counts(r) = <<1, 1, 1, 2>>
            /\ r.pc = "set_runtime" => Counts(r) = <<1, 2, 1, 2>>
            /\ r.pc = "done" =>
                   /\ r.outcome = "empty_primary" => Counts(r) = <<1, 0, 0, 0>>
                   /\ r.outcome = "probe_failed" => Counts(r) = <<1, 1, 1, 0>>
                   /\ r.outcome = "activated" => Counts(r) = <<1, 2, 1, 2>>
                   /\ r.outcome = "raised" =>
                          Counts(r) \in {<<0, 0, 0, 0>>, <<1, 1, 0, 0>>,
                                         <<1, 1, 1, 0>>, <<1, 1, 1, 1>>}

\* a run went through all its steps
C16_Witness ==
    \E t \in Threads :
        /\ run[t].pc = "done"
        /\ run[t].outcome = "activated"
        /\ Counts(run[t]) = <<1, 2, 1, 2>>
        /\ run[t].srcV4 # EmptyTable
        /\ run[t].srcV6 # EmptyTable

\* C17: a run with a primary table and a probe that answered true, which no
\* exception ended, reaches Activated whatever the secondary fetches gave,
\* and the table then active is the primary table overlaid with the tables
\* of the secondary sources that loaded: the primary table alone when both
\* failed
C17_SecondaryFailureNotFatal ==
    \A t \in Threads :
        (/\ run[t].pc = "done"
         /\ run[t].srcP # EmptyTable
         /\ run[t].probes = 1
         /\ run[t].probe_ok
         /\ run[t].outcome # "raised")
        => /\ run[t].outcome = "activated"
           /\ run[t].secondary_fetches = 2
           /\ ActiveTable = MergedTable(run[t])
           /\ (run[t].srcV4 = EmptyTable /\ run[t].srcV6 = EmptyTable)
                  => ActiveTable = run[t].srcP

\* the first secondary fetch failed and the second gave entries
C17_Witness ==
    \E t \in Threads :
        /\ run[t].pc = "done"
        /\ run[t].probe_ok
        /\ run[t].outcome = "activated"
        /\ run[t].srcV4 = EmptyTable
        /\ run[t].srcV6 # EmptyTable
        /\ ActiveTable = MergedTable(run[t])
        /\ ActiveTable # run[t].srcP

\* C18: from the install of a run's primary table until the next install,
\* the dict object that was installed holds what it held when it was
\* installed: the merge of the secondary tables does not write into it
C18_InstalledTableUnchanged ==
    \A t \in Threads :
        (/\ run[t].pc \in {"probe", "load_ipv4", "load_ipv6", "merge", "patch2"}
         /\ getaddrinfo = Patched(run[t].github))
        => heap[run[t].github] = run[t].srcP

\* a run of _update_all has been called and has not returned
InFlight(t) == run[t].pc # "idle"

\* C19: at most one run of _update_all is in flight, the run made by enable
\* on the host's thread and the runs made by the scheduler counted together
C19_OneRunInFlight == ~(InFlight("main") /\ InFlight("sched"))

\* C20: once a disable has returned, and until the next enable, the entry
\* point is the original resolver and no table is active, also when a
\* scheduled run was in progress as disable was called
C20_NoInstallAfterDisable ==
    (mpc.pc = "idle" /\ mpc.dis >= 1) =>
        /\ getaddrinfo = Orig
        /\ ActiveTable = EmptyTable

====
